---- MODULE Spec2Model ----
(***************************************************************************)
(* Model of trafix.cpp: a grid of signalised intersections, the           *)
(* proportional green-time allocator, the two Dijkstra routers, and the   *)
(* cycle simulator driven by main().                                       *)
(*                                                                         *)
(* Directions are numbered as in the source: 0=N, 1=S, 2=E, 3=W.  Arrays  *)
(* indexed by direction are functions over 0..3, vectors indexed by node  *)
(* are functions over 0..n-1, and a path (vector<int>) is a sequence.     *)
(***************************************************************************)
EXTENDS Integers, Sequences, FiniteSets, TLC

(***************************************************************************)
(* Bounds of the model.                                                    *)
(***************************************************************************)
\* allocator specification: each of the four queues is drawn from 0..MaxQ
MaxQ == 4
\* allocator specification: totalCycleSec is drawn from 1..MaxCycleSec (and 30)
MaxCycleSec == 8
\* router specification: at most MaxCongested nodes of a snapshot hold vehicles
MaxCongested == 2
\* simulation: at most MaxCycles cycles are run
MaxCycles == 2

(***************************************************************************)
(* Program constants.                                                      *)
(***************************************************************************)
\* const int INF = 1e9 of both routers
INF == 1000000000
\* int maxArrivalPerLane = 5 of simulateCycle
maxArrivalPerLane == 5
\* rand() % 20: the initial queue of a lane is below this
InitQueueModulus == 20
\* int edgeWeight = 1 + (congestion / 5)
CongestionScale == 5
\* int totalCycleSec = 30, the default cycle time of main
DefaultCycleSec == 30

Dirs == 0..3

\* int dr[4] = {-1, 1, 0, 0}; int dc[4] = {0, 0, 1, -1};
dr == (0 :> -1) @@ (1 :> 1) @@ (2 :> 0) @@ (3 :> 0)
dc == (0 :> 0) @@ (1 :> 0) @@ (2 :> 1) @@ (3 :> -1)

\* an array of four values, one per direction
Vec4(a, b, c, d) == (0 :> a) @@ (1 :> b) @@ (2 :> c) @@ (3 :> d)

\* a vector written out with its elements (the same function, fully evaluated)
Materialize(f) == f @@ << >>

Sum4(f) == f[0] + f[1] + f[2] + f[3]

Abs(x) == IF x < 0 THEN -x ELSE x

\* C++ integer division and remainder: the quotient truncates towards zero
CDiv(a, b) == IF (a >= 0) = (b > 0) THEN Abs(a) \div Abs(b) ELSE -(Abs(a) \div Abs(b))
CMod(a, b) == a - b * CDiv(a, b)

\* int nodeId(int r, int c, int C)
nodeId(r, c, Cc) == r * Cc + c

(***************************************************************************)
(* struct Intersection: q[4], green_dir (-1 = none), ambulance_override[4] *)
(***************************************************************************)
NoOverride == Vec4(FALSE, FALSE, FALSE, FALSE)

ZeroQ == Vec4(0, 0, 0, 0)

\* a node that starts with North recorded as green
IntersectionGreenNorth(qv) == [q |-> qv, green_dir |-> 0, ambulance_override |-> NoOverride]

Intersection(qv) == [q |-> qv, green_dir |-> -1, ambulance_override |-> NoOverride]

(***************************************************************************)
(* buildGridGraph: graph.assign(n, {}) and then, for every cell (r,c) of   *)
(* the R x C loops, one edge {v, 1} per direction d = 0..3 whose target    *)
(* cell lies inside the grid, pushed in that order.                        *)
(***************************************************************************)
GridEdgeNoBounds(r, c, d, Rr, Cc) ==
    LET nr == r + dr[d]
        nc == c + dc[d]
    IN  IF nr >= 0 /\ nr < Rr
        THEN << [to |-> nodeId(nr, nc, Cc), w |-> 1] >>
        ELSE << >>

GridEdge(r, c, d, Rr, Cc) ==
    LET nr == r + dr[d]
        nc == c + dc[d]
    IN  IF nr >= 0 /\ nr < Rr /\ nc >= 0 /\ nc < Cc
        THEN << [to |-> nodeId(nr, nc, Cc), w |-> 1] >>
        ELSE << >>

CellEdges(r, c, Rr, Cc) ==
    GridEdge(r, c, 0, Rr, Cc) \o GridEdge(r, c, 1, Rr, Cc)
        \o GridEdge(r, c, 2, Rr, Cc) \o GridEdge(r, c, 3, Rr, Cc)

buildGridGraph(Rr, Cc) ==
    [u \in 0..(Rr * Cc - 1) |->
        LET cells == {p \in (0..(Rr - 1)) \X (0..(Cc - 1)) : nodeId(p[1], p[2], Cc) = u}
        IN  IF cells = {} THEN << >>
            ELSE LET p == CHOOSE x \in cells : TRUE IN CellEdges(p[1], p[2], Rr, Cc)]

(***************************************************************************)
(* allocateGreenTimes                                                      *)
(***************************************************************************)
\* (int)round(ratio * totalCycleSec) with ratio = (double)q[i] / total:
\* the nearest integer, halves away from zero.  The double product equals
\* the exact quotient's rounding for every total <= 120 when
\* totalCycleSec <= 10 or totalCycleSec = 30, the values the model draws.
RoundRatio(qi, total, T) ==
    LET num == qi * T
    IN  IF num >= 0 THEN (2 * num + total) \div (2 * total)
        ELSE -((2 * (-num) + total) \div (2 * total))

Max(a, b) == IF a >= b THEN a ELSE b
Min(a, b) == IF a <= b THEN a ELSE b

\* total == 0: times[i] = totalCycleSec / 4; times[0] += totalCycleSec % 4
EqualSplitLast(T) == Vec4(CDiv(T, 4), CDiv(T, 4), CDiv(T, 4), CDiv(T, 4) + CMod(T, 4))

EqualSplit(T) == Vec4(CDiv(T, 4) + CMod(T, 4), CDiv(T, 4), CDiv(T, 4), CDiv(T, 4))

\* the rounded shares without the floor of 1
ProportionalShareNoFloor(qv, T) ==
    LET total == Sum4(qv)
    IN  Vec4(RoundRatio(qv[0], total, T), RoundRatio(qv[1], total, T),
             RoundRatio(qv[2], total, T), RoundRatio(qv[3], total, T))

\* times[i] = max(1, (int)round(ratio * totalCycleSec))
ProportionalShare(qv, T) ==
    LET total == Sum4(qv)
    IN  Vec4(Max(1, RoundRatio(qv[0], total, T)), Max(1, RoundRatio(qv[1], total, T)),
             Max(1, RoundRatio(qv[2], total, T)), Max(1, RoundRatio(qv[3], total, T)))

\* the index with times[i] > 1 and the largest queue, or -1
DecrementIndexLargest(times, qv) ==
    LET cand == {i \in Dirs : times[i] > 1}
    IN  IF cand = {} THEN -1
        ELSE CHOOSE i \in cand :
                \A j \in cand : qv[i] > qv[j] \/ (qv[i] = qv[j] /\ i <= j)

\* the index with the smallest queue, whatever time it holds
DecrementIndexAny(times, qv) ==
    CHOOSE i \in Dirs : \A j \in Dirs : qv[i] < qv[j] \/ (qv[i] = qv[j] /\ i <= j)

\* first loop: the index with times[i] > 1 and the smallest queue (the first
\* such index on equal queues), or -1
DecrementIndex(times, qv) ==
    LET cand == {i \in Dirs : times[i] > 1}
    IN  IF cand = {} THEN -1
        ELSE CHOOSE i \in cand :
                \A j \in cand : qv[i] < qv[j] \/ (qv[i] = qv[j] /\ i <= j)

\* the last index with the largest queue
IncrementIndexLast(qv) ==
    CHOOSE i \in Dirs : \A j \in Dirs : qv[i] > qv[j] \/ (qv[i] = qv[j] /\ i >= j)

\* second loop: the index with the largest queue (the first on equal queues)
IncrementIndex(qv) ==
    CHOOSE i \in Dirs : \A j \in Dirs : qv[i] > qv[j] \/ (qv[i] = qv[j] /\ i <= j)

RECURSIVE DecrementLoop(_, _, _)
DecrementLoop(times, qv, T) ==
    IF Sum4(times) > T
    THEN LET idx == DecrementIndex(times, qv)
         IN  IF idx = -1 THEN times
             ELSE DecrementLoop([times EXCEPT ![idx] = @ - 1], qv, T)
    ELSE times

RECURSIVE IncrementLoop(_, _, _)
IncrementLoop(times, qv, T) ==
    IF Sum4(times) < T
    THEN IncrementLoop([times EXCEPT ![IncrementIndex(qv)] = @ + 1], qv, T)
    ELSE times

allocateGreenTimes(qv, T) ==
    IF Sum4(qv) = 0 THEN EqualSplit(T)
    ELSE IncrementLoop(DecrementLoop(ProportionalShare(qv, T), qv, T), qv, T)

(***************************************************************************)
(* dijkstraPath and dijkstraCongestionPath.  The search state is the three *)
(* locals dist, parent and pq; pq holds pairs <<d, v>> and, being a        *)
(* min-heap under greater<pair<int,int>>, pops the lexicographically       *)
(* smallest pair.  A pair is pushed only when dist[v] strictly decreases,  *)
(* so no pair is ever in the heap twice and a set represents it.           *)
(***************************************************************************)
PairLE(p, o) == p[1] < o[1] \/ (p[1] = o[1] /\ p[2] <= o[2])

PQTopMax(pq) == CHOOSE p \in pq : \A o \in pq : PairLE(o, p)

PQTop(pq) == CHOOSE p \in pq : \A o \in pq : PairLE(p, o)

\* if (dist[u] + w < dist[v]) { dist[v] = dist[u] + w; parent[v] = u; pq.push({dist[v], v}); }
Relax(st, u, v, w) ==
    IF st.dist[u] + w < st.dist[v]
    THEN [dist   |-> [st.dist EXCEPT ![v] = st.dist[u] + w],
          parent |-> [st.parent EXCEPT ![v] = u],
          pq     |-> st.pq \cup {<<st.dist[u] + w, v>>}]
    ELSE st

\* for (auto &e : graph[u]) ..., from the k-th edge on; weights[k] is the
\* weight the variant gives the k-th edge
RECURSIVE RelaxEdges(_, _, _, _, _)
RelaxEdges(st, u, edges, weights, k) ==
    IF k > Len(edges) THEN st
    ELSE RelaxEdges(Relax(st, u, edges[k].to, weights[k]), u, edges, weights, k + 1)

\* while (!pq.empty()) { pop; if (d != dist[u]) continue; if (u == dest) break; relax }
RECURSIVE DijkstraLoop(_, _, _, _)
DijkstraLoop(st, dest, g, W) ==
    IF st.pq = {} THEN st
    ELSE LET top    == PQTop(st.pq)
             d      == top[1]
             u      == top[2]
             popped == [st EXCEPT !.pq = @ \ {top}]
         IN  IF d # st.dist[u] THEN DijkstraLoop(popped, dest, g, W)
             ELSE IF u = dest THEN popped
             ELSE DijkstraLoop(RelaxEdges(popped, u, g[u], W[u], 1), dest, g, W)

\* vector<int> dist(n, INF), parent(n, -1); dist[src] = 0; pq.push({0, src});
SearchStart(src, g) ==
    [dist   |-> Materialize([v \in DOMAIN g |-> IF v = src THEN 0 ELSE INF]),
     parent |-> Materialize([v \in DOMAIN g |-> -1]),
     pq     |-> {<<0, src>>}]

\* for (int v = dest; v != -1; v = parent[v]) path.push_back(v);
RECURSIVE ParentChain(_, _)
ParentChain(parent, v) ==
    IF v = -1 THEN << >> ELSE <<v>> \o ParentChain(parent, parent[v])

\* reverse(path.begin(), path.end())
NotReversed(s) == s

Reverse(s) == [k \in 1..Len(s) |-> s[Len(s) + 1 - k]]

\* if (dist[dest] == INF) return path; ...; reverse; return path;
ExtractPathByParent(st, dest) ==
    IF st.parent[dest] = -1 THEN << >>
    ELSE Reverse(ParentChain(st.parent, dest))

ExtractPath(st, dest) ==
    IF st.dist[dest] = INF THEN << >>
    ELSE Reverse(ParentChain(st.parent, dest))

\* the distance variant relaxes with e.w
StoredWeights(g) ==
    Materialize([u \in DOMAIN g |-> Materialize([k \in 1..Len(g[u]) |-> g[u][k].w])])

dijkstraPath(src, dest, g) ==
    ExtractPath(DijkstraLoop(SearchStart(src, g), dest, g, StoredWeights(g)), dest)

\* int congestion = city[v].q[0] + city[v].q[1] + city[v].q[2] + city[v].q[3];
\* every node counts as empty
congestionNone(cty, v) == 0

congestion(cty, v) == Sum4(cty[v].q)

\* int edgeWeight = 1 + (congestion / 5);
edgeWeightOfSource(cty, u, v) == 1 + CDiv(congestion(cty, u), CongestionScale)

edgeWeight(cty, u, v) == 1 + CDiv(congestion(cty, v), CongestionScale)

CongestionWeights(g, cty) ==
    Materialize([u \in DOMAIN g |->
        Materialize([k \in 1..Len(g[u]) |-> edgeWeight(cty, u, g[u][k].to)])])

dijkstraCongestionPath(src, dest, g, cty) ==
    ExtractPath(DijkstraLoop(SearchStart(src, g), dest, g, CongestionWeights(g, cty)), dest)

(***************************************************************************)
(* simulateCycle (the ambulance-aware variant that main calls)             *)
(***************************************************************************)
\* the direction from v to u instead
CompassDirMirrored(u, v, Cc) ==
    LET ur == CDiv(u, Cc)
        uc == CMod(u, Cc)
        vr == CDiv(v, Cc)
        vc == CMod(v, Cc)
    IN  IF ur = vr - 1 /\ vc = uc THEN 0
        ELSE IF ur = vr + 1 /\ vc = uc THEN 1
        ELSE IF vr = ur /\ uc = vc + 1 THEN 2
        ELSE IF vr = ur /\ uc = vc - 1 THEN 3
        ELSE -1

\* the compass direction from u to v by their grid coordinates, or -1
CompassDir(u, v, Cc) ==
    LET ur == CDiv(u, Cc)
        uc == CMod(u, Cc)
        vr == CDiv(v, Cc)
        vc == CMod(v, Cc)
    IN  IF vr = ur - 1 /\ vc = uc THEN 0
        ELSE IF vr = ur + 1 /\ vc = uc THEN 1
        ELSE IF vr = ur /\ vc = uc + 1 THEN 2
        ELSE IF vr = ur /\ vc = uc - 1 THEN 3
        ELSE -1

\* both ends of every pair of the path are flagged, each towards the other
SetOverridesBothEnds(flags, path, idx, Cc) ==
    [i \in DOMAIN flags |-> [d \in Dirs |->
        \/ flags[i][d]
        \/ \E k \in idx..(Len(path) - 1) :
              \/ path[k] = i /\ CompassDir(i, path[k + 1], Cc) = d
              \/ path[k + 1] = i /\ CompassDir(i, path[k], Cc) = d]]

\* for (idx = 0; idx + 1 < path.size(); ++idx) city[u].ambulance_override[dir] = true;
\* path positions are 1-based here, so idx runs from 1 while idx + 1 <= Len(path)
RECURSIVE SetOverrides(_, _, _, _)
SetOverrides(flags, path, idx, Cc) ==
    IF idx + 1 > Len(path) THEN flags
    ELSE LET u   == path[idx]
             dir == CompassDir(u, path[idx + 1], Cc)
         IN  SetOverrides(IF dir >= 0 THEN [flags EXCEPT ![u][dir] = TRUE] ELSE flags,
                          path, idx + 1, Cc)

\* every node is flagged on North, whatever the path
OverrideFlagsAllNorth(path, nodes, Cc) ==
    Materialize([i \in nodes |-> Vec4(TRUE, FALSE, FALSE, FALSE)])

\* every flag is cleared, then the flags of the path are set
OverrideFlags(path, nodes, Cc) ==
    SetOverrides(Materialize([i \in nodes |-> NoOverride]), path, 1, Cc)

hasOverride(I) == \E d \in Dirs : I.ambulance_override[d]

\* for (d = 0; d < 4; ++d) if (I.ambulance_override[d]) { giveDir = d; break; }
giveDir(I) ==
    IF hasOverride(I)
    THEN CHOOSE d \in Dirs : I.ambulance_override[d] /\ \A e \in 0..(d - 1) : ~I.ambulance_override[e]
    ELSE -1

\* every direction gets the whole cycle
OverrideTimesAllGreen(base, gd, T) == Vec4(T, T, T, T)

\* greenTimes[d] = 0 for every d; greenTimes[giveDir] = totalCycleSec
OverrideTimesKeepBaseline(base, gd, T) == [base EXCEPT ![gd] = T]

OverrideTimes(base, gd, T) == [ZeroQ EXCEPT ![gd] = T]

\* the green times the service loop of one node uses
NodeGreenTimes(I, T) ==
    IF hasOverride(I) /\ giveDir(I) >= 0
    THEN OverrideTimes(allocateGreenTimes(I.q, T), giveDir(I), T)
    ELSE allocateGreenTimes(I.q, T)

\* the last direction with the largest time
BestDirLast(gt) ==
    CHOOSE b \in Dirs : \A d \in Dirs : gt[b] > gt[d] \/ (gt[b] = gt[d] /\ b >= d)

\* best = 0; for (d = 1; d < 4; ++d) if (greenTimes[d] > greenTimes[best]) best = d;
BestDir(gt) ==
    CHOOSE b \in Dirs : \A d \in Dirs : gt[b] > gt[d] \/ (gt[b] = gt[d] /\ b <= d)

\* the node keeps the direction it had
NodeGreenDirKept(I, gt) == I.green_dir

NodeGreenDir(I, gt) ==
    IF hasOverride(I)
    THEN (IF giveDir(I) >= 0 THEN giveDir(I) ELSE I.green_dir)
    ELSE BestDir(gt)

\* the product rounded up
canServeCeil(rate, serveSec) == (rate[1] * serveSec + rate[2] - 1) \div rate[2]

\* int canServe = (int)floor(serviceRate * serveSec + 1e-9); the rate is the
\* rational rate[1] / rate[2] with rate[2] > 0
canServe(rate, serveSec) == (rate[1] * serveSec) \div rate[2]

\* int served = min(canServe, I.q[d]);
servedUncapped(cs, qd) == cs

served(cs, qd) == Min(cs, qd)

(***************************************************************************)
(* The state: the locals of main, the locals of the last simulateCycle     *)
(* call, and the locals of a stepwise allocateGreenTimes call.             *)
(***************************************************************************)
VARIABLES
    pc,                  \* where the program is
    R, C,                \* grid rows and columns as read by main
    graph,               \* vector<vector<Edge>> graph
    city,                \* vector<Intersection> city
    totalCycles, totalCycleSec, serviceRate,
    ambulance_enabled, amb_cycle, amb_src, amb_dest,
    cycle,               \* the loop counter of main
    ambulancePath, shortestPath, congestionPath,
    vehiclesArrivedTotal, cumulativeQueueSum, totalVehiclesServed,
    avgQueueLengthPerCyclePerNode,   \* the double of the final report, as <<numerator, denominator>>
    qBefore,             \* simulateCycle: the queues when the call started
    arrivals,            \* simulateCycle: arr of every node and direction
    greenTimes,          \* simulateCycle: greenTimes of every node
    servedNow,           \* simulateCycle: served of every node and direction
    times, assigned,     \* allocateGreenTimes: its locals
    adjustments          \* allocateGreenTimes: iterations of the two loops so far

configVars == <<R, C, totalCycles, totalCycleSec, serviceRate,
                ambulance_enabled, amb_cycle, amb_src, amb_dest>>
pathVars == <<ambulancePath, shortestPath, congestionPath>>
metricVars == <<vehiclesArrivedTotal, cumulativeQueueSum, totalVehiclesServed,
                avgQueueLengthPerCyclePerNode>>
cycleVars == <<qBefore, arrivals, greenTimes, servedNow>>
allocVars == <<times, assigned, adjustments>>
vars == <<pc, configVars, graph, city, cycle, pathVars, metricVars, cycleVars, allocVars>>

n == R * C
Nodes == DOMAIN city

(***************************************************************************)
(* The inputs the model draws.                                             *)
(***************************************************************************)
\* grids of the simulation, as <<R, C>>
SimShapes == {<<1, 1>>, <<1, 2>>, <<2, 1>>, <<2, 2>>}

\* cycle time and service rate of the simulation, the rate as
\* <<numerator, denominator>>: a cycle below 4 s, a cycle of 8 s at rate 1,
\* and the defaults 30 s and 0.5
SimTimings == {<<3, <<1, 2>>>>, <<8, <<1, 1>>>>, <<DefaultCycleSec, <<1, 2>>>>}

\* city[i].q[d] = rand() % 20, and arr = rand() % (maxArrivalPerLane + 1)
LaneStarts == 0..(InitQueueModulus - 1)
LaneArrivals == 0..maxArrivalPerLane

InRange(vecs, range) == {v \in vecs : \A d \in Dirs : v[d] \in range}

\* the queue vectors a node may start with
InitQueueVectors == InRange({Vec4(19, 0, 7, 2), Vec4(6, 6, 0, 0)}, LaneStarts)

\* the arrival vectors a node may receive in a cycle
ArrivalVectors == InRange({Vec4(5, 0, 2, 1)}, LaneArrivals)

\* one vector per node: ZeroQ everywhere but at no more than maxBusy nodes
BusyChoices(nodes, vecs, maxBusy) ==
    {f \in [nodes -> vecs \cup {ZeroQ}] :
        Cardinality({i \in nodes : f[i] # ZeroQ}) <= maxBusy}

(***************************************************************************)
(* main: the state when the prompts have been answered with positive       *)
(* sizes and cycle time, a positive rate, ambulance ids inside the grid,   *)
(* and a cycle count that may be 0 (the loop body then never runs).        *)
(***************************************************************************)
Blank ==
    /\ pc = "setup"
    /\ graph = << >>
    /\ city = << >>
    /\ cycle = 0
    /\ ambulancePath = << >> /\ shortestPath = << >> /\ congestionPath = << >>
    /\ vehiclesArrivedTotal = 0 /\ cumulativeQueueSum = 0 /\ totalVehiclesServed = 0
    /\ avgQueueLengthPerCyclePerNode = <<0, 1>>
    /\ qBefore = << >> /\ arrivals = << >> /\ greenTimes = << >> /\ servedNow = << >>
    /\ times = ZeroQ /\ assigned = 0 /\ adjustments = 0

\* bool ambulance_enabled; int amb_cycle = 1, amb_src = 0, amb_dest = n-1, and
\* the three prompts that overwrite them when the ambulance is enabled
AmbulanceInput(cycles, ids) ==
    /\ ambulance_enabled \in BOOLEAN
    /\ IF ambulance_enabled
       THEN amb_cycle \in cycles /\ amb_src \in ids /\ amb_dest \in ids
       ELSE amb_cycle = 1 /\ amb_src = 0 /\ amb_dest = n - 1

Init ==
    /\ \E p \in SimShapes : R = p[1] /\ C = p[2]
    /\ totalCycles \in 0..MaxCycles
    /\ \E t \in SimTimings : totalCycleSec = t[1] /\ serviceRate = t[2]
    /\ AmbulanceInput(1..MaxCycles, 0..(n - 1))
    /\ Blank

\* main, lines 820-829 and 869-871: the graph and the city are built, every
\* lane starts with rand() % 20 vehicles, the metrics start at 0
Setup ==
    /\ pc = "setup"
    /\ n >= 0
    /\ graph' = buildGridGraph(R, C)
    /\ \E q0 \in BusyChoices(0..(n - 1), InitQueueVectors, 1) :
          city' = [i \in 0..(n - 1) |-> Intersection(q0[i])]
    /\ cycle' = 1
    /\ pc' = "loop"
    /\ UNCHANGED <<configVars, pathVars, metricVars, cycleVars, allocVars>>

\* the path of the cycle before stays in ambulancePath
EnterCycleKeepPath ==
    /\ pc = "loop"
    /\ cycle <= totalCycles
    /\ pc' = IF ambulance_enabled /\ cycle = amb_cycle THEN "route" ELSE "simulate"
    /\ UNCHANGED <<configVars, graph, city, cycle, pathVars, metricVars, cycleVars, allocVars>>

\* for (cycle = 1; cycle <= totalCycles; ...) { vector<int> ambulancePath;
\*   if (ambulance_enabled && cycle == amb_cycle) ... }
EnterCycle ==
    /\ pc = "loop"
    /\ cycle <= totalCycles
    /\ ambulancePath' = << >> /\ shortestPath' = << >> /\ congestionPath' = << >>
    /\ pc' = IF ambulance_enabled /\ cycle = amb_cycle THEN "route" ELSE "simulate"
    /\ UNCHANGED <<configVars, graph, city, cycle, metricVars, cycleVars, allocVars>>

\* the congestion-aware path is the one used
RouteByCongestion ==
    /\ pc = "route"
    /\ amb_src \in DOMAIN graph /\ amb_dest \in DOMAIN graph
    /\ shortestPath' = dijkstraPath(amb_src, amb_dest, graph)
    /\ congestionPath' = dijkstraCongestionPath(amb_src, amb_dest, graph, city)
    /\ ambulancePath' = congestionPath'
    /\ pc' = "simulate"
    /\ UNCHANGED <<configVars, graph, city, cycle, metricVars, cycleVars, allocVars>>

\* main, lines 883-892: both routers run, the shortest path is the one used
Route ==
    /\ pc = "route"
    /\ amb_src \in DOMAIN graph /\ amb_dest \in DOMAIN graph
    /\ shortestPath' = dijkstraPath(amb_src, amb_dest, graph)
    /\ congestionPath' = dijkstraCongestionPath(amb_src, amb_dest, graph, city)
    /\ ambulancePath' = shortestPath'
    /\ pc' = "simulate"
    /\ UNCHANGED <<configVars, graph, city, cycle, metricVars, cycleVars, allocVars>>

\* the vehicles leave the lanes and are not counted as served
NodeServiceUncounted(I, T, rate) ==
    LET gt == NodeGreenTimes(I, T)
        sv == Vec4(served(canServe(rate, gt[0]), I.q[0]), served(canServe(rate, gt[1]), I.q[1]),
                   served(canServe(rate, gt[2]), I.q[2]), served(canServe(rate, gt[3]), I.q[3]))
    IN  [q |-> Vec4(I.q[0] - sv[0], I.q[1] - sv[1], I.q[2] - sv[2], I.q[3] - sv[3]),
         green_dir |-> NodeGreenDir(I, gt),
         ambulance_override |-> I.ambulance_override,
         greenTimes |-> gt,
         served |-> ZeroQ]

\* simulateCycle, the body of the second loop for one node: I is city[i]
\* after the arrival loop and the override setup.  The result holds the
\* node's fields and the two locals greenTimes and served.
NodeService(I, T, rate) ==
    LET gt == NodeGreenTimes(I, T)
        sv == Vec4(served(canServe(rate, gt[0]), I.q[0]), served(canServe(rate, gt[1]), I.q[1]),
                   served(canServe(rate, gt[2]), I.q[2]), served(canServe(rate, gt[3]), I.q[3]))
    IN  [q |-> Vec4(I.q[0] - sv[0], I.q[1] - sv[1], I.q[2] - sv[2], I.q[3] - sv[3]),
         green_dir |-> NodeGreenDir(I, gt),
         ambulance_override |-> I.ambulance_override,
         greenTimes |-> gt,
         served |-> sv]

\* the sum of f[i][0..3] over the nodes of f
RECURSIVE SumNodes(_, _)
SumNodes(f, k) == IF k \notin DOMAIN f THEN 0 ELSE Sum4(f[k]) + SumNodes(f, k + 1)

\* simulateCycle on the city cty with the arrivals
\* arr[i][d] = rand() % (maxArrivalPerLane + 1): the city it leaves, what it
\* adds to the three metrics, and its locals greenTimes and served
simulateCycle(cty, Cc, T, rate, path, arr) ==
    LET flags  == OverrideFlags(path, DOMAIN cty, Cc)
        atNode == Materialize([i \in DOMAIN cty |->
                      [q |-> Vec4(cty[i].q[0] + arr[i][0], cty[i].q[1] + arr[i][1],
                                  cty[i].q[2] + arr[i][2], cty[i].q[3] + arr[i][3]),
                       green_dir |-> cty[i].green_dir,
                       ambulance_override |-> flags[i]]])
        done   == Materialize([i \in DOMAIN cty |-> NodeService(atNode[i], T, rate)])
        sv     == Materialize([i \in DOMAIN cty |-> done[i].served])
        after  == Materialize([i \in DOMAIN cty |-> done[i].q])
    IN  [city |-> Materialize([i \in DOMAIN cty |->
                      [q |-> done[i].q,
                       green_dir |-> done[i].green_dir,
                       ambulance_override |-> done[i].ambulance_override]]),
         arrived    |-> SumNodes(arr, 0),
         servedSum  |-> SumNodes(sv, 0),
         queueSum   |-> SumNodes(after, 0),
         greenTimes |-> Materialize([i \in DOMAIN cty |-> done[i].greenTimes]),
         served     |-> sv]

(***************************************************************************)
(* The basic simulateCycle (the first program of the file, lines 95-127),  *)
(* which has no ambulancePath parameter, with the allocateGreenTimes of    *)
(* that program (lines 68-93).  Its statements for the proportional        *)
(* shares, the two loops, the best direction and the service are the same  *)
(* text as in the ambulance-aware program, so their operators are used.    *)
(***************************************************************************)
allocateGreenTimesBasic(qv, T) ==
    IF Sum4(qv) = 0 THEN EqualSplit(T)
    ELSE IncrementLoop(DecrementLoop(ProportionalShare(qv, T), qv, T), qv, T)

\* the body of the second loop for one node: I is city[i] after the arrivals
NodeServiceBasic(I, T, rate) ==
    LET gt == allocateGreenTimesBasic(I.q, T)
        sv == Vec4(served(canServe(rate, gt[0]), I.q[0]), served(canServe(rate, gt[1]), I.q[1]),
                   served(canServe(rate, gt[2]), I.q[2]), served(canServe(rate, gt[3]), I.q[3]))
    IN  [q |-> Vec4(I.q[0] - sv[0], I.q[1] - sv[1], I.q[2] - sv[2], I.q[3] - sv[3]),
         green_dir |-> BestDir(gt),
         ambulance_override |-> I.ambulance_override,
         served |-> sv]

\* the city the basic simulateCycle leaves and what it adds to the metrics
simulateCycleBasic(cty, T, rate, arr) ==
    LET atNode == Materialize([i \in DOMAIN cty |->
                      [q |-> Vec4(cty[i].q[0] + arr[i][0], cty[i].q[1] + arr[i][1],
                                  cty[i].q[2] + arr[i][2], cty[i].q[3] + arr[i][3]),
                       green_dir |-> cty[i].green_dir,
                       ambulance_override |-> cty[i].ambulance_override]])
        done   == Materialize([i \in DOMAIN cty |-> NodeServiceBasic(atNode[i], T, rate)])
        sv     == Materialize([i \in DOMAIN cty |-> done[i].served])
        after  == Materialize([i \in DOMAIN cty |-> done[i].q])
    IN  [city |-> Materialize([i \in DOMAIN cty |->
                      [q |-> done[i].q,
                       green_dir |-> done[i].green_dir,
                       ambulance_override |-> done[i].ambulance_override]]),
         arrived   |-> SumNodes(arr, 0),
         servedSum |-> SumNodes(sv, 0),
         queueSum  |-> SumNodes(after, 0)]

\* main, lines 897-898: the call of simulateCycle, and ++cycle
SimulateCycle ==
    /\ pc = "simulate"
    /\ \E arr \in BusyChoices(Nodes, ArrivalVectors, 1) :
       \E res \in {simulateCycle(city, C, totalCycleSec, serviceRate, ambulancePath, arr)} :
          /\ city' = res.city
          /\ vehiclesArrivedTotal' = vehiclesArrivedTotal + res.arrived
          /\ totalVehiclesServed' = totalVehiclesServed + res.servedSum
          /\ cumulativeQueueSum' = cumulativeQueueSum + res.queueSum
          /\ qBefore' = Materialize([i \in Nodes |-> city[i].q])
          /\ arrivals' = arr
          /\ greenTimes' = res.greenTimes
          /\ servedNow' = res.served
    /\ cycle' = cycle + 1
    /\ pc' = "loop"
    /\ UNCHANGED <<configVars, graph, pathVars, allocVars, avgQueueLengthPerCyclePerNode>>

\* the quotient without the test of totalCycles
averageQueueLengthUnguarded(sum, cycles, nodes) == <<sum, cycles * nodes>>

\* double avgQueueLengthPerCyclePerNode = 0.0;
\* if (totalCycles > 0) avg = (double)cumulativeQueueSum / (totalCycles * n);
\* the double is kept as the pair <<numerator, denominator>>, 0.0 as <<0, 1>>
averageQueueLength(sum, cycles, nodes) ==
    IF cycles > 0 THEN <<sum, cycles * nodes>> ELSE <<0, 1>>

\* the loop of main ends, and the average of the final report is computed
Finish ==
    /\ pc = "loop"
    /\ cycle > totalCycles
    /\ avgQueueLengthPerCyclePerNode' = averageQueueLength(cumulativeQueueSum, totalCycles, n)
    /\ pc' = "done"
    /\ UNCHANGED <<configVars, graph, city, cycle, pathVars, cycleVars, allocVars,
                   vehiclesArrivedTotal, cumulativeQueueSum, totalVehiclesServed>>

Next == Setup \/ EnterCycle \/ Route \/ SimulateCycle \/ Finish

Spec == Init /\ [][Next]_vars

(***************************************************************************)
(* main with any integers typed at the prompts.  R * C < 0 makes           *)
(* graph.assign(n, {}) throw (the size converts to a huge unsigned value)  *)
(* and nothing catches it.  A router called with an id outside the graph   *)
(* indexes dist and graph out of bounds: the run may stop there, or go on  *)
(* with whatever path the search leaves.                                   *)
(***************************************************************************)
SetupDims == -1..2
SetupCycles == {-1, 0, 1}
SetupCycleSecs == {-1, 0, 3}
SetupIds == -1..(IF n > 0 THEN n ELSE 0)

InitSetup ==
    /\ R \in SetupDims /\ C \in SetupDims
    /\ totalCycles \in SetupCycles
    /\ totalCycleSec \in SetupCycleSecs
    /\ serviceRate = <<1, 2>>
    /\ AmbulanceInput({1}, SetupIds)
    /\ Blank

SetupAbort ==
    /\ pc = "setup"
    /\ n < 0
    /\ pc' = "aborted"
    /\ UNCHANGED <<configVars, graph, city, cycle, pathVars, metricVars, cycleVars, allocVars>>

\* the paths a search with an out-of-range id may leave
StrayPaths == {<< >>} \cup {<<v>> : v \in {amb_dest} \cap DOMAIN graph}

RouteOutOfRange ==
    /\ pc = "route"
    /\ ~(amb_src \in DOMAIN graph /\ amb_dest \in DOMAIN graph)
    /\ \/ /\ pc' = "crashed"
          /\ UNCHANGED pathVars
       \/ /\ shortestPath' \in StrayPaths
          /\ congestionPath' \in StrayPaths
          /\ ambulancePath' = shortestPath'
          /\ pc' = "simulate"
    /\ UNCHANGED <<configVars, graph, city, cycle, metricVars, cycleVars, allocVars>>

NextSetup == Setup \/ SetupAbort \/ EnterCycle \/ Route \/ RouteOutOfRange \/ SimulateCycle \/ Finish

SpecSetup == InitSetup /\ [][NextSetup]_vars

(***************************************************************************)
(* The routers on their own: a grid, a snapshot of the queues, and any     *)
(* two node ids of the grid.                                               *)
(***************************************************************************)
RouteShapes == {<<1, 1>>, <<1, 3>>, <<3, 1>>, <<2, 2>>, <<2, 3>>, <<3, 2>>, <<3, 3>>}

\* queues of a congested node: a total of 7 (edge weight 2) and of 50 (edge weight 11)
SnapshotVectors == {Vec4(3, 4, 0, 0), Vec4(19, 19, 12, 0)}

InitRoute ==
    /\ \E p \in RouteShapes : R = p[1] /\ C = p[2]
    /\ totalCycles = 1
    /\ totalCycleSec = DefaultCycleSec
    /\ serviceRate = <<1, 2>>
    /\ ambulance_enabled = TRUE
    /\ amb_cycle = 1
    /\ amb_src \in 0..(n - 1)
    /\ amb_dest \in 0..(n - 1)
    /\ Blank

\* the graph is built, and the city holds the queues of some later cycle
RouteSetup ==
    /\ pc = "setup"
    /\ graph' = buildGridGraph(R, C)
    /\ \E snap \in BusyChoices(0..(n - 1), SnapshotVectors, MaxCongested) :
          city' = [i \in 0..(n - 1) |-> Intersection(snap[i])]
    /\ cycle' = 1
    /\ pc' = "route"
    /\ UNCHANGED <<configVars, pathVars, metricVars, cycleVars, allocVars>>

NextRoute == RouteSetup \/ Route

SpecRoute == InitRoute /\ [][NextRoute]_vars

(***************************************************************************)
(* allocateGreenTimes on its own, one loop iteration per step: I is        *)
(* city[0], and times, assigned are its locals.                            *)
(***************************************************************************)
AllocCycleSecs == (1..MaxCycleSec) \cup {DefaultCycleSec}

InitAlloc ==
    /\ R = 1 /\ C = 1
    /\ totalCycles = 1
    /\ totalCycleSec \in AllocCycleSecs
    /\ serviceRate = <<1, 2>>
    /\ ambulance_enabled = FALSE /\ amb_cycle = 1 /\ amb_src = 0 /\ amb_dest = 0
    /\ pc = "alloc_start"
    /\ graph = buildGridGraph(1, 1)
    /\ \E a \in 0..MaxQ, b \in 0..MaxQ, c \in 0..MaxQ, d \in 0..MaxQ :
          city = (0 :> Intersection(Vec4(a, b, c, d)))
    /\ cycle = 1
    /\ ambulancePath = << >> /\ shortestPath = << >> /\ congestionPath = << >>
    /\ vehiclesArrivedTotal = 0 /\ cumulativeQueueSum = 0 /\ totalVehiclesServed = 0
    /\ avgQueueLengthPerCyclePerNode = <<0, 1>>
    /\ qBefore = << >> /\ arrivals = << >> /\ greenTimes = << >> /\ servedNow = << >>
    /\ times = ZeroQ /\ assigned = 0 /\ adjustments = 0

allocFrame == <<configVars, graph, city, cycle, pathVars, metricVars, cycleVars>>

\* if (total == 0) { ...; return times; }
AllocEqualSplit ==
    /\ pc = "alloc_start"
    /\ Sum4(city[0].q) = 0
    /\ times' = EqualSplit(totalCycleSec)
    /\ pc' = "alloc_done"
    /\ UNCHANGED <<assigned, adjustments, allocFrame>>

\* the first for loop: the proportional shares and their sum
AllocProportional ==
    /\ pc = "alloc_start"
    /\ Sum4(city[0].q) # 0
    /\ times' = ProportionalShare(city[0].q, totalCycleSec)
    /\ assigned' = Sum4(times')
    /\ pc' = "alloc_decrement"
    /\ UNCHANGED <<adjustments, allocFrame>>

\* one iteration of while (assigned > totalCycleSec) that finds an index
AllocDecrement ==
    /\ pc = "alloc_decrement"
    /\ assigned > totalCycleSec
    /\ DecrementIndex(times, city[0].q) # -1
    /\ times' = [times EXCEPT ![DecrementIndex(times, city[0].q)] = @ - 1]
    /\ assigned' = assigned - 1
    /\ adjustments' = adjustments + 1
    /\ UNCHANGED <<pc, allocFrame>>

\* the first loop ends: its condition fails, or if (idx == -1) break;
AllocDecrementEnd ==
    /\ pc = "alloc_decrement"
    /\ assigned <= totalCycleSec \/ DecrementIndex(times, city[0].q) = -1
    /\ pc' = "alloc_increment"
    /\ UNCHANGED <<allocVars, allocFrame>>

\* one iteration of while (assigned < totalCycleSec)
AllocIncrement ==
    /\ pc = "alloc_increment"
    /\ assigned < totalCycleSec
    /\ times' = [times EXCEPT ![IncrementIndex(city[0].q)] = @ + 1]
    /\ assigned' = assigned + 1
    /\ adjustments' = adjustments + 1
    /\ UNCHANGED <<pc, allocFrame>>

\* return times;
AllocReturn ==
    /\ pc = "alloc_increment"
    /\ assigned >= totalCycleSec
    /\ pc' = "alloc_done"
    /\ UNCHANGED <<allocVars, allocFrame>>

NextAlloc ==
    \/ AllocEqualSplit \/ AllocProportional
    \/ AllocDecrement \/ AllocDecrementEnd
    \/ AllocIncrement \/ AllocReturn

SpecAlloc == InitAlloc /\ [][NextAlloc]_vars

\* the call runs on: a sequential function takes its next step whenever it
\* has one
SpecAllocFair == SpecAlloc /\ WF_vars(NextAlloc)

\* the stepwise run returns what the operator the simulation uses returns
AllocStepsAgree ==
    pc = "alloc_done" => times = allocateGreenTimes(city[0].q, totalCycleSec)

(***************************************************************************)
(* Properties.                                                             *)
(***************************************************************************)
\* the row and column of a node id of an Rr x Cc grid
RowOf(u, Cc) == u \div Cc
ColOf(u, Cc) == u % Cc

\* u and v are one cardinal step apart
Adjacent(u, v, Cc) ==
    Abs(RowOf(u, Cc) - RowOf(v, Cc)) + Abs(ColOf(u, Cc) - ColOf(v, Cc)) = 1

EdgeTargets(g, u) == {g[u][k].to : k \in 1..Len(g[u])}

SetMin(S) == CHOOSE x \in S : \A y \in S : x <= y

\* the edges of g as triples <<from, to, weight under W>>
WeightedEdges(g, W) ==
    UNION {{<<u, g[u][k].to, W[u][k]>> : k \in 1..Len(g[u])} : u \in DOMAIN g}

\* the least cost of a walk from the source to every node, by rounds of
\* relaxing every edge until nothing changes (no priority queue, no early exit)
RECURSIVE LeastCosts(_, _, _)
LeastCosts(d, E, rounds) ==
    LET next == Materialize([v \in DOMAIN d |->
                    SetMin({d[v]} \cup {d[e[1]] + e[3] : e \in {x \in E : x[2] = v}})])
    IN  IF rounds = 0 \/ next = d THEN d ELSE LeastCosts(next, E, rounds - 1)

MinCost(src, dest, g, W) ==
    LeastCosts(Materialize([v \in DOMAIN g |-> IF v = src THEN 0 ELSE INF]),
               WeightedEdges(g, W), Cardinality(DOMAIN g))[dest]

\* the cost of a path under W: the weights of its edges, INF if a step is no edge
RECURSIVE PathCost(_, _, _)
PathCost(path, E, idx) ==
    IF idx + 1 > Len(path) THEN 0
    ELSE LET es == {e \in E : e[1] = path[idx] /\ e[2] = path[idx + 1]}
         IN  IF es = {} THEN INF
             ELSE (CHOOSE e \in es : TRUE)[3] + PathCost(path, E, idx + 1)

CostOf(path, g, W) == PathCost(path, WeightedEdges(g, W), 1)

\* the weights of the claim's two cost measures
UnitWeights(g) == [u \in DOMAIN g |-> [k \in 1..Len(g[u]) |-> 1]]
EnteredNodeWeights(g, cty) ==
    [u \in DOMAIN g |-> [k \in 1..Len(g[u]) |-> 1 + (Sum4(cty[g[u][k].to].q) \div 5)]]

\* a path is a cheapest one under W
Cheapest(path, src, dest, g, W) == CostOf(path, g, W) = MinCost(src, dest, g, W)

Routed == pc = "simulate" /\ ambulance_enabled /\ cycle = amb_cycle

\* C1: allocateGreenTimes returns four non-negative integers whose sum is
\* exactly cycleSeconds, for every queue vector and every cycleSeconds > 0
C1_AllocSumExact ==
    pc = "alloc_done" =>
        /\ \A i \in Dirs : times[i] >= 0
        /\ Sum4(times) = totalCycleSec

\* C2: after a cycle, every node's total queue is its total before the cycle
\* plus the cycle's arrivals minus the cycle's served vehicles, and no lane
\* of any node is ever negative
C2_QueueConservation ==
    /\ \A i \in Nodes : \A d \in Dirs : city[i].q[d] >= 0
    /\ (pc \in {"loop", "route", "simulate", "done"} /\ cycle > 1) =>
          \A i \in Nodes :
             Sum4(city[i].q) = Sum4(qBefore[i]) + Sum4(arrivals[i]) - Sum4(servedNow[i])

\* a cycle in which a lane was emptied by the cap and another kept vehicles
C2_Witness ==
    /\ pc = "loop" /\ cycle > 1
    /\ \E i \in Nodes : \E d, e \in Dirs :
          /\ arrivals[i][d] > 0 /\ servedNow[i][d] > 0 /\ city[i].q[d] = 0
          /\ servedNow[i][d] < canServe(serviceRate, greenTimes[i][d])
          /\ city[i].q[e] > 0

\* C3: a node with an ambulance override on direction d is served with
\* cycleSeconds for d and 0 for the other three directions, and its green
\* direction is d, whatever its queues are
C3_OverrideTakesCycle ==
    \A i \in Nodes : \A d \in Dirs :
        city[i].ambulance_override[d] =>
            /\ i \in DOMAIN greenTimes
            /\ greenTimes[i] = [e \in Dirs |-> IF e = d THEN totalCycleSec ELSE 0]
            /\ city[i].green_dir = d

\* a node overridden on East although its North lane held more vehicles
C3_Witness ==
    \E i \in Nodes :
        /\ city[i].ambulance_override[2]
        /\ greenTimes[i] = Vec4(0, 0, totalCycleSec, 0)
        /\ city[i].green_dir = 2
        /\ qBefore[i][0] + arrivals[i][0] > qBefore[i][2] + arrivals[i][2]

\* C4: the path of dijkstraPath costs (1 per edge) the minimum over all
\* paths from source to destination, and the path of dijkstraCongestionPath
\* costs (1 + floor(queues of the entered node / 5) per edge) the minimum
\* under that cost
C4_RoutersOptimal ==
    Routed =>
        /\ Cheapest(shortestPath, amb_src, amb_dest, graph, UnitWeights(graph))
        /\ Cheapest(congestionPath, amb_src, amb_dest, graph, EnteredNodeWeights(graph, city))

\* the two routers disagree: the hop-shortest path costs more under
\* congestion, and the congestion path is longer
C4_Witness ==
    /\ Routed
    /\ shortestPath # congestionPath
    /\ CostOf(shortestPath, graph, EnteredNodeWeights(graph, city))
          > CostOf(congestionPath, graph, EnteredNodeWeights(graph, city))
    /\ Len(congestionPath) > Len(shortestPath)

\* a path from src to dest along grid steps that visits no node twice
SimplePath(path, src, dest, Cc) ==
    /\ Len(path) >= 1
    /\ path[1] = src
    /\ path[Len(path)] = dest
    /\ \A k \in 1..(Len(path) - 1) : Adjacent(path[k], path[k + 1], Cc)
    /\ \A j, k \in 1..Len(path) : j # k => path[j] # path[k]

\* C5: on a grid with R >= 1 and C >= 1, both routers return a non-empty
\* sequence from the source to the destination whose consecutive nodes are
\* 4-neighbours and in which no node appears twice
C5_RoutersReturnSimplePath ==
    Routed =>
        /\ SimplePath(shortestPath, amb_src, amb_dest, C)
        /\ SimplePath(congestionPath, amb_src, amb_dest, C)

\* corner to corner on the 3 x 3 grid
C5_Witness ==
    /\ Routed /\ R = 3 /\ C = 3
    /\ amb_src = 8 /\ amb_dest = 0
    /\ Len(shortestPath) = 5 /\ Len(congestionPath) >= 5

\* C6: with source = destination both routers return the one-node path
C6_SameNodePath ==
    (Routed /\ amb_src = amb_dest) =>
        /\ shortestPath = <<amb_src>>
        /\ congestionPath = <<amb_src>>

\* source = destination at a node that holds vehicles
C6_Witness ==
    /\ Routed /\ amb_src = amb_dest
    /\ Sum4(city[amb_src].q) > 0
    /\ shortestPath = <<amb_src>> /\ congestionPath = <<amb_src>>

\* C7: the graph of buildGridGraph has an edge u->v exactly when u and v are
\* one cardinal step apart inside the grid, every edge has weight 1, and
\* u->v is present iff v->u is
C7_GridEdges ==
    pc # "setup" =>
        /\ DOMAIN graph = 0..(R * C - 1)
        /\ \A u \in DOMAIN graph :
              /\ \A k \in 1..Len(graph[u]) : graph[u][k].w = 1
              /\ EdgeTargets(graph, u) = {v \in DOMAIN graph : Adjacent(u, v, C)}
              /\ Len(graph[u]) = Cardinality(EdgeTargets(graph, u))
              /\ \A v \in DOMAIN graph :
                    (v \in EdgeTargets(graph, u)) <=> (u \in EdgeTargets(graph, v))

\* the 3 x 3 grid: the centre has four edges, and the end of the first row
\* has none to the start of the second
C7_Witness ==
    /\ pc # "setup" /\ R = 3 /\ C = 3
    /\ EdgeTargets(graph, 4) = {1, 3, 5, 7}
    /\ 3 \notin EdgeTargets(graph, 2)

\* C8: with R <= 0 or C <= 0 no graph is produced and no cycle runs
C8_InvalidDimensionRejected ==
    (R <= 0 \/ C <= 0) => pc \in {"setup", "aborted"}

\* C9: simulateCycle and the routers are never invoked with a non-positive
\* cycle time or cycle count, or with an ambulance id outside [0, R*C)
C9_ConfigurationRejected ==
    /\ pc \in {"route", "simulate"} => (totalCycleSec > 0 /\ totalCycles > 0)
    /\ pc = "route" => (amb_src \in 0..(R * C - 1) /\ amb_dest \in 0..(R * C - 1))

\* C10: with all four queues zero, allocateGreenTimes returns
\* [T div 4 + T mod 4, T div 4, T div 4, T div 4]; [9,7,7,7] for T = 30
C10_ZeroQueuesEqualSplit ==
    (pc = "alloc_done" /\ \A d \in Dirs : city[0].q[d] = 0) =>
        /\ times[0] = (totalCycleSec \div 4) + (totalCycleSec % 4)
        /\ \A d \in 1..3 : times[d] = totalCycleSec \div 4
        /\ totalCycleSec = 30 => times = Vec4(9, 7, 7, 7)

C10_Witness ==
    /\ pc = "alloc_done"
    /\ city[0].q = ZeroQ
    /\ totalCycleSec = 30
    /\ times = Vec4(9, 7, 7, 7)

\* the cycle that has just ended was the ambulance's
AmbulanceCycleDone ==
    pc = "loop" /\ cycle > 1 /\ ambulance_enabled /\ cycle - 1 = amb_cycle

\* v is the neighbour of u on side d: 0 = one row up, 1 = one row down,
\* 2 = one column right, 3 = one column left
NeighbourOn(u, v, d, Cc) ==
    /\ RowOf(v, Cc) - RowOf(u, Cc) = (IF d = 0 THEN -1 ELSE IF d = 1 THEN 1 ELSE 0)
    /\ ColOf(v, Cc) - ColOf(u, Cc) = (IF d = 2 THEN 1 ELSE IF d = 3 THEN -1 ELSE 0)

\* C11: in the ambulance's cycle the override flag of a node u is set for
\* direction d exactly when the path has a consecutive pair (u, v) with v the
\* neighbour of u on side d, so the last node of the path and the nodes off
\* the path have no flag; on the 1 x 2 grid from node 0 to node 1, node 0 has
\* its override on East alone, node 1 has none, and node 0 is green on East
\* with the whole cycle time
C11_OverrideFollowsPath ==
    AmbulanceCycleDone =>
        /\ \A u \in Nodes : \A d \in Dirs :
              city[u].ambulance_override[d] <=>
                 \E k \in 1..(Len(ambulancePath) - 1) :
                    /\ ambulancePath[k] = u
                    /\ NeighbourOn(u, ambulancePath[k + 1], d, C)
        /\ (R = 1 /\ C = 2 /\ amb_src = 0 /\ amb_dest = 1) =>
              /\ city[0].ambulance_override = [d \in Dirs |-> d = 2]
              /\ city[1].ambulance_override = NoOverride
              /\ city[0].green_dir = 2
              /\ greenTimes[0] = Vec4(0, 0, totalCycleSec, 0)

\* a path of three nodes on the 2 x 2 grid: two nodes flagged, on different
\* sides, the destination and the fourth node unflagged
C11_Witness ==
    /\ AmbulanceCycleDone
    /\ R = 2 /\ C = 2 /\ amb_src = 3 /\ amb_dest = 0
    /\ Len(ambulancePath) = 3
    /\ \E u, v \in Nodes : \E d, e \in Dirs :
          /\ u # v /\ d # e
          /\ city[u].ambulance_override[d] /\ city[v].ambulance_override[e]
    /\ city[0].ambulance_override = NoOverride

\* the cycle that has just ended had no ambulance event
PlainCycleDone ==
    pc = "loop" /\ cycle > 1 /\ ~(ambulance_enabled /\ cycle - 1 = amb_cycle)

\* the cycle that has just ended started with every queue empty and brought
\* no arrival
IdleCycle ==
    \A i \in Nodes : qBefore[i] = ZeroQ /\ arrivals[i] = ZeroQ

\* C12: a cycle with no ambulance that starts with all queues zero and has
\* every arrival 0 leaves every intersection with queues [0,0,0,0], serves no
\* vehicle, and records North as the green direction of every intersection
C12_IdleCycleNorth ==
    (PlainCycleDone /\ IdleCycle) =>
        \A i \in Nodes :
            /\ city[i].q = ZeroQ
            /\ servedNow[i] = ZeroQ
            /\ city[i].green_dir = 0

\* the scenario: 2 x 2 grid, 30 s cycle, service rate 0.5, first cycle
C12_Witness ==
    /\ PlainCycleDone /\ IdleCycle
    /\ R = 2 /\ C = 2 /\ totalCycleSec = 30 /\ serviceRate = <<1, 2>>
    /\ cycle = 2
    /\ \A i \in Nodes : city[i].q = ZeroQ /\ city[i].green_dir = 0
    /\ totalVehiclesServed = 0

\* the nodes of a path
PathNodes(path) == {path[k] : k \in 1..Len(path)}

\* k is the one congested node: its queues sum to 50, every other node is empty
OnlyCongested(k) ==
    /\ Sum4(city[k].q) = 50
    /\ \A i \in Nodes \ {k} : city[i].q = ZeroQ

\* every edge into k is closed, every other edge costs 1
AvoidWeights(g, k) ==
    [u \in DOMAIN g |-> [j \in 1..Len(g[u]) |-> IF g[u][j].to = k THEN INF ELSE 1]]

\* the least number of hops from u to v
HopDistance(u, v) == MinCost(u, v, graph, UnitWeights(graph))

\* the least cost of a route from the source to the destination around k
DetourCost(k) == MinCost(amb_src, amb_dest, graph, AvoidWeights(graph, k))

\* the least cost of a route from the source to the destination through k
ThroughCost(k) ==
    MinCost(amb_src, k, graph, EnteredNodeWeights(graph, city))
        + MinCost(k, amb_dest, graph, EnteredNodeWeights(graph, city))

\* C13: with one node k (not an end of the route) holding queues that sum
\* to 50, so that entering it costs 11, and every other node empty, when a
\* hop-shortest route from source to destination passes through k and the
\* cheapest detour around k costs less than the cheapest route through k,
\* the route of dijkstraCongestionPath does not contain k
C13_CongestedNodeAvoided ==
    Routed =>
        \A k \in Nodes \ {amb_src, amb_dest} :
            (/\ OnlyCongested(k)
             /\ HopDistance(amb_src, k) + HopDistance(k, amb_dest)
                    = HopDistance(amb_src, amb_dest)
             /\ DetourCost(k) < ThroughCost(k))
            => /\ k \notin PathNodes(congestionPath)
               /\ 1 + (Sum4(city[k].q) \div 5) = 11

\* 3 x 3 grid, centre congested, from the middle of the left column to the
\* middle of the right: the hop-shortest path crosses the centre, the
\* congestion path goes round it with two more hops
C13_Witness ==
    /\ Routed /\ R = 3 /\ C = 3
    /\ amb_src = 3 /\ amb_dest = 5
    /\ OnlyCongested(4)
    /\ shortestPath = <<3, 4, 5>>
    /\ DetourCost(4) = 4 /\ ThroughCost(4) = 12
    /\ Len(congestionPath) = 5
    /\ 4 \notin PathNodes(congestionPath)

\* C14: when at least one of the four queues is non-zero, every value that
\* allocateGreenTimes returns is at least 1, also for a direction whose own
\* queue is zero, for every cycleSeconds > 0
C14_EveryDirectionGetsASecond ==
    (pc = "alloc_done" /\ Sum4(city[0].q) > 0) =>
        \A d \in Dirs : times[d] >= 1

\* one lane holds every vehicle of the node and the reconciliation took
\* seconds away: the three empty directions still hold their second
C14_Witness ==
    /\ pc = "alloc_done"
    /\ city[0].q = Vec4(4, 0, 0, 0)
    /\ totalCycleSec = 8
    /\ adjustments = 3
    /\ times = Vec4(5, 1, 1, 1)

\* C15: for every queue vector and every cycleSeconds > 0 the two
\* reconciliation loops of allocateGreenTimes come to an end (the call
\* returns), and the one-second adjustments they make, decrements and
\* increments together, never number more than cycleSeconds
C15_ReconciliationBounded ==
    /\ [](adjustments <= totalCycleSec)
    /\ <>(pc = "alloc_done")

\* a call that returned after three decrements, two of them on the first of
\* two equal queues
C15_Witness ==
    /\ pc = "alloc_done"
    /\ city[0].q = Vec4(1, 1, 0, 0)
    /\ totalCycleSec = 5
    /\ adjustments = 3
    /\ times = Vec4(1, 2, 1, 1)

\* idx is the first direction of cand whose queue is the smallest (sign = 1)
\* or the largest (sign = -1) of cand
FirstExtreme(idx, cand, qv, sign) ==
    /\ idx \in cand
    /\ \A j \in cand :
          sign * qv[idx] < sign * qv[j] \/ (qv[idx] = qv[j] /\ idx <= j)

\* C16: each decrement of the reconciliation goes to the direction with the
\* smallest queue among those that hold more than 1 second, each increment
\* to the direction with the largest queue, in both cases the first in
\* N,S,E,W order on equal queues, and the time of no other direction changes
C16_ReconciliationTargets ==
    [][adjustments' # adjustments =>
          \E idx \in Dirs :
             IF pc = "alloc_decrement"
             THEN /\ FirstExtreme(idx, {i \in Dirs : times[i] > 1}, city[0].q, 1)
                  /\ times' = [times EXCEPT ![idx] = times[idx] - 1]
             ELSE /\ pc = "alloc_increment"
                  /\ FirstExtreme(idx, Dirs, city[0].q, -1)
                  /\ times' = [times EXCEPT ![idx] = times[idx] + 1]]_vars

\* one increment, given to North although South's queue is as long
C16_Witness ==
    /\ pc = "alloc_done"
    /\ city[0].q = Vec4(2, 2, 1, 1)
    /\ totalCycleSec = 7
    /\ adjustments = 1
    /\ times = Vec4(3, 2, 1, 1)

\* a cycle has just ended
CycleDone == pc = "loop" /\ cycle > 1

Unflagged(i) == city[i].ambulance_override = NoOverride

\* the directions of node i that hold the largest green time of the cycle
LongestGreens(i) ==
    {d \in Dirs : \A e \in Dirs : greenTimes[i][d] >= greenTimes[i][e]}

\* C17: at a node with no override flag the recorded green direction is the
\* direction with the largest allocated green time, the first in N,S,E,W
\* order when several directions share it
C17_GreenIsLongest ==
    CycleDone =>
        \A i \in Nodes :
            Unflagged(i) =>
                /\ city[i].green_dir \in LongestGreens(i)
                /\ \A d \in LongestGreens(i) : city[i].green_dir <= d

\* one node where all four directions share the largest time and North is
\* recorded, and one node whose green direction is not North
C17_Witness ==
    /\ CycleDone
    /\ \E i \in Nodes :
          Unflagged(i) /\ LongestGreens(i) = Dirs /\ city[i].green_dir = 0
    /\ \E j \in Nodes :
          Unflagged(j) /\ city[j].green_dir # 0 /\ LongestGreens(j) = {city[j].green_dir}

\* floor(rate * sec) for the rate rate[1] / rate[2] and sec >= 0: the integer
\* k with k <= rate * sec < k + 1
FloorOfProduct(rate, sec) ==
    CHOOSE k \in 0..(rate[1] * sec) :
        k * rate[2] <= rate[1] * sec /\ rate[1] * sec < (k + 1) * rate[2]

\* what the claim says a cycle removes from lane d of node i: qv is the lane
\* after the arrivals, gt the seconds allocated to it
DueService(rate, qv, gt) ==
    LET cap == FloorOfProduct(rate, gt)
    IN  IF qv <= cap THEN qv ELSE cap

\* DueService for every lane of every node of a cycle that starts from the
\* city cty, receives the arrivals arr and allocates the seconds gt
DueServices(rate, cty, arr, gt) ==
    Materialize([i \in DOMAIN cty |->
        Vec4(DueService(rate, cty[i].q[0] + arr[i][0], gt[i][0]),
             DueService(rate, cty[i].q[1] + arr[i][1], gt[i][1]),
             DueService(rate, cty[i].q[2] + arr[i][2], gt[i][2]),
             DueService(rate, cty[i].q[3] + arr[i][3], gt[i][3]))])

\* the cycle from cty to ctyAfter served sv, and the metric went from
\* metric to metricAfter, as due says
ServedAsDue(due, cty, arr, sv, ctyAfter, metric, metricAfter) ==
    /\ sv = due
    /\ \A i \in DOMAIN cty : \A d \in Dirs :
          ctyAfter[i].q[d] = cty[i].q[d] + arr[i][d] - due[i][d]
    /\ metricAfter = metric + SumNodes(due, 0)

\* C18: in the service step the vehicles removed from each lane of each node
\* number exactly min(queue after arrivals, floor(serviceRate * seconds
\* allocated to the lane)), and the served-vehicles metric grows by exactly
\* the sum of these numbers (service rates 1/2 and 1)
C18_ServedIsCappedFloor ==
    [][(pc = "simulate" /\ pc' = "loop") =>
          \E due \in {DueServices(serviceRate, city, arrivals', greenTimes')} :
              ServedAsDue(due, city, arrivals', servedNow', city',
                          totalVehiclesServed, totalVehiclesServed')]_vars

\* at rate 1/2 a lane with an odd number of seconds, three or more, served
\* half a vehicle less than rate * seconds and kept vehicles, next to a lane
\* of the same node that was emptied
C18_Witness ==
    /\ CycleDone
    /\ serviceRate = <<1, 2>>
    /\ \E i \in Nodes : \E d, e \in Dirs :
          /\ greenTimes[i][d] >= 3 /\ greenTimes[i][d] % 2 = 1
          /\ 2 * servedNow[i][d] = greenTimes[i][d] - 1
          /\ city[i].q[d] > 0
          /\ servedNow[i][e] > 0 /\ city[i].q[e] = 0
    /\ totalVehiclesServed > 0

\* the number of override flags set at node i
FlagCount(i) == Cardinality({d \in Dirs : city[i].ambulance_override[d]})

\* C19: in every cycle whose ambulance path comes from the router, no node
\* has more than one ambulance_override entry set when the allocation and
\* service step runs
C19_AtMostOneFlag ==
    \A i \in Nodes : FlagCount(i) <= 1

\* the ambulance's cycle on the 2 x 2 grid, corner to opposite corner: the
\* source and the middle node of the path hold one flag each
C19_Witness ==
    /\ AmbulanceCycleDone
    /\ R = 2 /\ C = 2 /\ amb_src = 0 /\ amb_dest = 3
    /\ Len(ambulancePath) = 3
    /\ FlagCount(ambulancePath[1]) = 1
    /\ FlagCount(ambulancePath[2]) = 1
    /\ FlagCount(3) = 0

\* the lanes of node i when the green times of the last cycle were computed
QueueAtAllocation(i) ==
    Vec4(qBefore[i][0] + arrivals[i][0], qBefore[i][1] + arrivals[i][1],
         qBefore[i][2] + arrivals[i][2], qBefore[i][3] + arrivals[i][3])

\* C20: the override flags are cleared in every cycle before the allocation:
\* after a cycle with no ambulance event no node has a flag set, also when
\* the cycle before had an ambulance path, and every node was served with
\* the green times its queues alone give
C20_OverridesLastOneCycle ==
    PlainCycleDone =>
        \A i \in Nodes :
            /\ city[i].ambulance_override = NoOverride
            /\ greenTimes[i] = allocateGreenTimes(QueueAtAllocation(i), totalCycleSec)

\* the cycle after the ambulance's: the first cycle had a path of two or
\* more nodes, the second has left no flag, and the ambulance's source is
\* no longer green for the whole cycle
C20_Witness ==
    /\ PlainCycleDone
    /\ ambulance_enabled /\ amb_cycle = 1 /\ cycle = 3
    /\ amb_src # amb_dest
    /\ \A i \in Nodes : city[i].ambulance_override = NoOverride
    /\ \A d \in Dirs : greenTimes[amb_src][d] < totalCycleSec

\* the city with the arrivals arr added to its queues
WithArrivals(cty, arr) ==
    Materialize([i \in DOMAIN cty |->
        [q |-> Vec4(cty[i].q[0] + arr[i][0], cty[i].q[1] + arr[i][1],
                    cty[i].q[2] + arr[i][2], cty[i].q[3] + arr[i][3]),
         green_dir |-> cty[i].green_dir,
         ambulance_override |-> cty[i].ambulance_override]])

\* C21: in a cycle with an ambulance event the routers run after the
\* cycle's arrivals have been added to the queues: the congestion-aware path
\* of the cycle is a cheapest path under the queue lengths the nodes have
\* once the arrivals of that cycle are in
C21_RoutingAfterArrival ==
    [][(pc = "simulate" /\ pc' = "loop" /\ ambulance_enabled /\ cycle = amb_cycle) =>
          \E W \in {EnteredNodeWeights(graph, WithArrivals(city, arrivals'))} :
              Cheapest(congestionPath, amb_src, amb_dest, graph, W)]_vars

\* the vehicles waiting at all nodes of cty, lane by lane
RECURSIVE QueueTotalOf(_, _)
QueueTotalOf(cty, S) ==
    IF S = {} THEN 0
    ELSE LET i == CHOOSE x \in S : TRUE
         IN  cty[i].q[0] + cty[i].q[1] + cty[i].q[2] + cty[i].q[3]
                 + QueueTotalOf(cty, S \ {i})

QueueTotal(cty) == QueueTotalOf(cty, DOMAIN cty)

\* C22: cumulativeQueueSum starts at 0 and each simulated cycle adds to it the
\* total queue length of all nodes as it is right after the service step of
\* that cycle, and nothing else changes it; the reported average is the sum
\* divided by cycles x nodes, and with zero cycles the sum is 0 and the
\* reported average is 0, not a quotient by zero
C22_CumulativeQueueSum ==
    /\ [](pc = "setup" => cumulativeQueueSum = 0)
    /\ [][cumulativeQueueSum' =
             cumulativeQueueSum + (IF pc = "simulate" THEN QueueTotal(city') ELSE 0)]_vars
    /\ [](pc = "done" =>
             IF totalCycles = 0
             THEN cumulativeQueueSum = 0 /\ avgQueueLengthPerCyclePerNode = <<0, 1>>
             ELSE /\ avgQueueLengthPerCyclePerNode[1] = cumulativeQueueSum
                  /\ avgQueueLengthPerCyclePerNode[2] = totalCycles * R * C
                  /\ avgQueueLengthPerCyclePerNode[2] > 0)

\* two cycles that both left vehicles waiting: the sum is larger than what
\* waits at the end, and the average has been reported
C22_Witness ==
    /\ pc = "done" /\ totalCycles = 2
    /\ QueueTotal(city) > 0
    /\ cumulativeQueueSum > QueueTotal(city)
    /\ avgQueueLengthPerCyclePerNode = <<cumulativeQueueSum, 2 * R * C>>

\* C23: the green direction of every intersection is none (-1) until the
\* first cycle has run, and after every completed cycle it is one of N, S,
\* E, W and is a direction that held the largest green time of the most
\* recent cycle, which at an overridden node is the whole cycle time
C23_GreenDirection ==
    /\ cycle <= 1 => \A i \in Nodes : city[i].green_dir = -1
    /\ cycle > 1 =>
          \A i \in Nodes :
              /\ city[i].green_dir \in Dirs
              /\ city[i].green_dir \in LongestGreens(i)
              /\ ~Unflagged(i) => greenTimes[i][city[i].green_dir] = totalCycleSec

\* after the ambulance's cycle: an overridden node green on a side other
\* than North for the whole cycle, and a node green by its allocation
C23_Witness ==
    /\ AmbulanceCycleDone
    /\ \E i \in Nodes :
          /\ ~Unflagged(i)
          /\ city[i].green_dir \in 1..3
          /\ greenTimes[i][city[i].green_dir] = totalCycleSec
    /\ \E j \in Nodes :
          /\ Unflagged(j)
          /\ city[j].green_dir \in Dirs
          /\ greenTimes[j][city[j].green_dir] < totalCycleSec

\* vehicles that arrived and have not been served
Backlog(arrived, servedTotal) == arrived - servedTotal

\* C24: vehiclesArrivedTotal minus totalVehiclesServed always equals the
\* vehicles now waiting at all nodes minus the vehicles of the initial
\* queues: both counters are 0 when the queues are initialised and every
\* later step changes their difference by what it changes the waiting total;
\* neither counter ever decreases; every arrival added to a lane is in 0..5
C24_CountersMatchQueues ==
    /\ [](pc = "setup" => vehiclesArrivedTotal = 0 /\ totalVehiclesServed = 0)
    /\ [][pc # "setup" =>
             \E before \in {QueueTotal(city)} : \E after \in {QueueTotal(city')} :
                 Backlog(vehiclesArrivedTotal', totalVehiclesServed')
                     - Backlog(vehiclesArrivedTotal, totalVehiclesServed) = after - before]_vars
    /\ [][/\ vehiclesArrivedTotal' >= vehiclesArrivedTotal
          /\ totalVehiclesServed' >= totalVehiclesServed]_vars
    /\ [](\A i \in DOMAIN arrivals : \A d \in Dirs : arrivals[i][d] \in 0..5)

\* two cycles with arrivals and service in which the queues shrank: more
\* was served than arrived
C24_Witness ==
    /\ pc = "done" /\ totalCycles = 2
    /\ vehiclesArrivedTotal > 0
    /\ totalVehiclesServed > vehiclesArrivedTotal
    /\ QueueTotal(city) > 0
    /\ \E i \in Nodes : arrivals[i][0] = 5

\* the override flags a cycle leaves when the ambulance follows path: node u
\* is flagged on side d exactly when path steps from u to its neighbour on d
FlagsAlong(path) ==
    [u \in Nodes |-> [d \in Dirs |->
        \E k \in 1..(Len(path) - 1) :
            path[k] = u /\ NeighbourOn(u, path[k + 1], d, C)]]

FlagsOf(cty) == [u \in DOMAIN cty |-> cty[u].ambulance_override]

\* C25: in the ambulance's cycle the override flags lie along the
\* hop-shortest path that dijkstraPath returns for the source and the
\* destination; the path of dijkstraCongestionPath decides no flag, also
\* when it differs from the hop-shortest path
C25_FlagsFollowShortestPath ==
    AmbulanceCycleDone =>
        /\ shortestPath = dijkstraPath(amb_src, amb_dest, graph)
        /\ Len(shortestPath) = HopDistance(amb_src, amb_dest) + 1
        /\ FlagsOf(city) = FlagsAlong(shortestPath)
        /\ shortestPath # congestionPath => FlagsOf(city) # FlagsAlong(congestionPath)

\* the two routers returned different paths and a node that only the
\* congestion-aware path visits carries no flag
C25_Witness ==
    /\ AmbulanceCycleDone
    /\ shortestPath # congestionPath
    /\ FlagsOf(city) = FlagsAlong(shortestPath)
    /\ \E u \in PathNodes(congestionPath) \ PathNodes(shortestPath) :
          city[u].ambulance_override = NoOverride

\* C26: at a node with an override on direction d no vehicle of the three
\* other directions is served in that cycle: each of those lanes ends the
\* cycle with its queue from before the cycle plus its arrivals, also when
\* it is the longest lane of the node
C26_OtherLanesNotServed ==
    cycle > 1 =>
        \A i \in Nodes : \A d \in Dirs :
            city[i].ambulance_override[d] =>
                \A e \in Dirs \ {d} :
                    /\ servedNow[i][e] = 0
                    /\ city[i].q[e] = qBefore[i][e] + arrivals[i][e]

\* an overridden node whose longest lane is not the overridden one: that
\* lane received arrivals and kept every vehicle, while the overridden lane
\* was served
C26_Witness ==
    /\ AmbulanceCycleDone
    /\ \E i \in Nodes : \E d, e \in Dirs :
          /\ city[i].ambulance_override[d] /\ e # d
          /\ \A f \in Dirs : qBefore[i][e] + arrivals[i][e] >= qBefore[i][f] + arrivals[i][f]
          /\ arrivals[i][e] > 0
          /\ city[i].q[e] = qBefore[i][e] + arrivals[i][e]
          /\ servedNow[i][d] > 0

\* the step from the city cty and the metrics m to ctyAfter and mAfter has
\* the queues, green directions and metric increments of the result b
SameCycleAs(b, ctyAfter, m, mAfter) ==
    /\ \A i \in DOMAIN ctyAfter :
          /\ ctyAfter[i].q = b.city[i].q
          /\ ctyAfter[i].green_dir = b.city[i].green_dir
    /\ mAfter[1] - m[1] = b.arrived
    /\ mAfter[2] - m[2] = b.queueSum
    /\ mAfter[3] - m[3] = b.servedSum

\* C27: called with an empty ambulance path, the ambulance-aware
\* simulateCycle leaves, for the same queues before the cycle and the same
\* arrivals, the queues, the green directions and the increments of the
\* three metrics that the basic simulateCycle without the ambulance
\* parameter leaves
C27_EmptyPathIsBasicCycle ==
    [][(pc = "simulate" /\ pc' = "loop" /\ ambulancePath = << >>) =>
          \E b \in {simulateCycleBasic(city, totalCycleSec, serviceRate, arrivals')} :
              SameCycleAs(b, city',
                          <<vehiclesArrivedTotal, cumulativeQueueSum, totalVehiclesServed>>,
                          <<vehiclesArrivedTotal', cumulativeQueueSum', totalVehiclesServed'>>)]_vars

\* the cycle after the ambulance's, run with an empty path from a city
\* that held vehicles: arrivals came in, vehicles were served, and vehicles
\* still wait
C27_Witness ==
    /\ PlainCycleDone /\ ambulancePath = << >>
    /\ ambulance_enabled /\ amb_cycle = 1 /\ amb_src # amb_dest /\ cycle = 3
    /\ \E i \in Nodes : Sum4(arrivals[i]) > 0 /\ Sum4(qBefore[i]) > 0
    /\ \E i \in Nodes : Sum4(servedNow[i]) > 0 /\ Sum4(city[i].q) > 0

\* C28: the allocation is monotone in the queue length: for any queue
\* vector, any cycleSeconds > 0 and any two directions i and j, if queue i
\* is strictly larger than queue j then the green time returned for i is at
\* least the green time returned for j
C28_AllocationMonotone ==
    pc = "alloc_done" =>
        \A i, j \in Dirs :
            city[0].q[i] > city[0].q[j] => times[i] >= times[j]

\* four different queues and a reconciliation that changed the rounded
\* shares: a longer queue holding more time than a shorter one, and a longer
\* queue holding the same time as a shorter one
C28_Witness ==
    /\ pc = "alloc_done"
    /\ \A i, j \in Dirs : i # j => city[0].q[i] # city[0].q[j]
    /\ adjustments > 0
    /\ \E i, j \in Dirs : city[0].q[i] > city[0].q[j] /\ times[i] > times[j]
    /\ \E i, j \in Dirs : city[0].q[i] > city[0].q[j] /\ times[i] = times[j]

====
